---- MODULE Spec2Model ----
(* Model of cmd/subcommands/root.go of gotron-sdk: the tronctl root command  *)
(* (flag wiring, persistent pre-run hook), the version check run by Execute  *)
(* on failure, findAddress and opts.                                         *)
(*                                                                           *)
(* Strings are sequences of characters; a fixed literal of the source that   *)
(* is never split or sliced is written as one element.                       *)
EXTENDS Integers, Sequences, FiniteSets, TLC

VARIABLES pc, signer, node, dryRun, useLedgerWallet, timeout,
          VersionWrapDump, signerAddress, addr, conn, ctlr, rootErr,
          resp, respTag, tag, errGit, stderr, events, exitStatus,
          nodeArg, buildStamp, lookup

vars == <<pc, signer, node, dryRun, useLedgerWallet, timeout,
          VersionWrapDump, signerAddress, addr, conn, ctlr, rootErr,
          resp, respTag, tag, errGit, stderr, events, exitStatus,
          nodeArg, buildStamp, lookup>>

-----------------------------------------------------------------------------
(* Bounds and input sets *)

MaxNodeLen == 2
MaxWait == 1

defaultTimeout == 20
ShaPrefixLen == 8
StatusOK == 200
OtherStatuses == {404, 500}

NodeChars == {"h", ":"}
DefaultPort == <<"5", "0", "0", "5", "1">>
defaultNodeAddr == <<"g", ":", "5">>

RECURSIVE StringsUpTo(_, _)
StringsUpTo(chars, n) ==
  IF n = 0 THEN {<<>>}
  ELSE LET shorter == StringsUpTo(chars, n - 1)
       IN shorter \cup {Append(s, c) : s \in shorter, c \in chars}

Nodes == StringsUpTo(NodeChars, MaxNodeLen)

T1 == <<"T", "1">>
T2 == <<"T", "2">>
Alice == <<"a", "l">>
Bob == <<"b", "o">>
Identifiers == {T1, T2, Alice, Bob}
Signers == {<<>>, T1, Alice, Bob}

Timeouts == (0..MaxWait) \cup {defaultTimeout}
WaitTimes == 0..MaxWait
SigningImpls == {"Software", "Ledger"}

StampShort == <<"v1", "-", "a", "b", "c", "d", "e", "f", "g">>
StampLong == <<"v1", "-", "a", "b", "c", "d", "e", "f", "g", "h">>
Stamps == {<<>>, <<"v1">>, StampShort, StampLong}

Tags == {<<>>, <<"v", "2">>}
Shas == {<<"a", "b", "c", "d", "e", "f", "g">>,
         <<"a", "b", "c", "d", "e", "f", "g", "h", "i">>,
         <<"z", "b", "c", "d", "e", "f", "g", "h", "i">>}

-----------------------------------------------------------------------------
(* Values *)

NilErr == [nil |-> TRUE, msg |-> <<>>]
Err(m) == [nil |-> FALSE, msg |-> m]

ZeroAddress == <<>>
NoConn == [created |-> FALSE, endpoint |-> <<>>, started |-> FALSE]
NoResp == [made |-> FALSE, nil |-> TRUE, StatusCode |-> 0, json |-> FALSE, value |-> <<>>]
NoLookup == [made |-> FALSE, value |-> <<>>, address |-> <<>>, err |-> NilErr, storeCalls |-> 0]
ZeroBehavior == [DryRun |-> FALSE, SigningImpl |-> "Software", ConfirmationWaitTime |-> 0]
NoCtlr == [live |-> FALSE, given |-> ZeroBehavior, Behavior |-> ZeroBehavior]

Behaviors == [DryRun : BOOLEAN, SigningImpl : SigningImpls, ConfirmationWaitTime : WaitTimes]

(* The outcomes of one http.Get: transport error (nil response), a status   *)
(* other than 200, 200 with a body that does not decode, 200 with a body    *)
(* that decodes to the given field value.                                   *)
Responses(values) ==
  {[made |-> TRUE, nil |-> TRUE, StatusCode |-> 0, json |-> FALSE, value |-> <<>>],
   [made |-> TRUE, nil |-> FALSE, StatusCode |-> StatusOK, json |-> FALSE, value |-> <<>>]}
  \cup {[made |-> TRUE, nil |-> FALSE, StatusCode |-> c, json |-> FALSE, value |-> <<>>] :
          c \in OtherStatuses}
  \cup {[made |-> TRUE, nil |-> FALSE, StatusCode |-> StatusOK, json |-> TRUE, value |-> v] :
          v \in values}

-----------------------------------------------------------------------------
(* Pure helpers *)

HasChar(s, c) == \E i \in 1..Len(s) : s[i] = c

(* strings.Split(s, sep) for a one-character separator *)
RECURSIVE Split(_, _)
Split(s, sep) ==
  IF ~HasChar(s, sep) THEN <<s>>
  ELSE LET i == CHOOSE k \in 1..Len(s) :
                  s[k] = sep /\ \A j \in 1..(k - 1) : s[j] # sep
       IN <<SubSeq(s, 1, i - 1)>> \o Split(SubSeq(s, i + 1, Len(s)), sep)

NormalizeNode_always(n) == n \o <<":">> \o DefaultPort

(* root.go 48-51: the switch on len(strings.Split(node, ":")) *)
NormalizeNode(n) ==
  IF Len(Split(n, ":")) = 1 THEN n \o <<":">> \o DefaultPort ELSE n

(* tronAddress.Set: the literal strings that parse as an address *)
LiteralAddresses == {T1, T2}
AddressSet(value) ==
  IF value \in LiteralAddresses
  THEN [address |-> value, err |-> NilErr]
  ELSE [address |-> ZeroAddress, err |-> Err(<<"invalid address">>)]

(* store.AddressFromAccountName: the local account-name store *)
AccountStore == [n \in {Alice, T1} |-> T2]
AddressFromAccountName(name) ==
  IF name \in DOMAIN AccountStore
  THEN [address |-> AccountStore[name], err |-> NilErr]
  ELSE [address |-> ZeroAddress, err |-> Err(<<"account not found">>)]

InvalidPrefix == <<"Invalid address/Invalid account name: ">>

findAddress_storeFirst(value) ==
  LET acc == AddressFromAccountName(value)
      set == AddressSet(value)
  IN IF acc.err.nil
     THEN [address |-> acc.address, err |-> NilErr, storeCalls |-> 1]
     ELSE IF set.err.nil
          THEN [address |-> set.address, err |-> NilErr, storeCalls |-> 1]
          ELSE [address |-> set.address, err |-> Err(InvalidPrefix \o value),
                storeCalls |-> 1]

(* root.go 195-206 *)
findAddress(value) ==
  LET set == AddressSet(value)
  IN IF ~set.err.nil
     THEN LET acc == AddressFromAccountName(value)
          IN IF acc.err.nil
             THEN [address |-> acc.address, err |-> NilErr, storeCalls |-> 1]
             ELSE [address |-> set.address, err |-> Err(InvalidPrefix \o value),
                   storeCalls |-> 1]
     ELSE [address |-> set.address, err |-> NilErr, storeCalls |-> 0]

opts_dryRunAssign(b) ==
  [DryRun |-> dryRun,
   SigningImpl |-> IF useLedgerWallet THEN "Ledger" ELSE b.SigningImpl,
   ConfirmationWaitTime |-> IF timeout > 0 THEN timeout ELSE b.ConfirmationWaitTime]

opts_timeoutAlways(b) ==
  [DryRun |-> IF dryRun THEN TRUE ELSE b.DryRun,
   SigningImpl |-> IF useLedgerWallet THEN "Ledger" ELSE b.SigningImpl,
   ConfirmationWaitTime |-> timeout]

(* root.go 208-218: opts applied to the controller's Behavior *)
opts(b) ==
  [DryRun |-> IF dryRun THEN TRUE ELSE b.DryRun,
   SigningImpl |-> IF useLedgerWallet THEN "Ledger" ELSE b.SigningImpl,
   ConfirmationWaitTime |-> IF timeout > 0 THEN timeout ELSE b.ConfirmationWaitTime]

CouldNotFetch == <<"could not fetch version">>
JSONError == <<"json: cannot unmarshal">>
WarnPrefix == <<"Warning: Using outdated version. Redownload to upgrade to ">>
(* line 183; the backquotes around --help are left out of the literal *)
HelpHint == <<"try adding a --help flag">>
PanicLine == <<"panic: runtime error">>
ErrorLine(stamp, err) == <<"commit: ">> \o stamp \o <<", error: ">> \o err.msg

-----------------------------------------------------------------------------
(* State after package initialisation: init() has registered the flags with  *)
(* their defaults and main has set VersionWrapDump.                          *)
Init ==
  /\ pc = "main"
  /\ signer = <<>>
  /\ node = defaultNodeAddr
  /\ dryRun = FALSE
  /\ useLedgerWallet = FALSE
  /\ timeout = defaultTimeout
  /\ VersionWrapDump \in Stamps
  /\ buildStamp = VersionWrapDump
  /\ nodeArg = defaultNodeAddr
  /\ signerAddress = ZeroAddress
  /\ addr = ZeroAddress
  /\ conn = NoConn
  /\ ctlr = NoCtlr
  /\ rootErr = NilErr
  /\ resp = NoResp
  /\ respTag = NoResp
  /\ tag = <<>>
  /\ errGit = NilErr
  /\ stderr = <<>>
  /\ events = <<>>
  /\ exitStatus = -1
  /\ lookup = NoLookup

(* Execute -> RootCmd.Execute(): the command line is parsed into the flag    *)
(* variables registered by init().                                           *)
ParseFlags ==
  /\ pc = "main"
  /\ \E n \in Nodes \cup {defaultNodeAddr}, s \in Signers,
        d \in BOOLEAN, l \in BOOLEAN, t \in Timeouts :
       /\ node' = n
       /\ nodeArg' = n
       /\ signer' = s
       /\ dryRun' = d
       /\ useLedgerWallet' = l
       /\ timeout' = t
  /\ pc' = "preRun"
  /\ UNCHANGED <<VersionWrapDump, signerAddress, addr, conn, ctlr, rootErr,
                 resp, respTag, tag, errGit, stderr, events, exitStatus,
                 buildStamp, lookup>>

(* PersistentPreRunE, lines 48-51 *)
PreRunNormalize ==
  /\ pc = "preRun"
  /\ node' = NormalizeNode(node)
  /\ events' = Append(events, "normalize")
  /\ pc' = "connect"
  /\ UNCHANGED <<signer, dryRun, useLedgerWallet, timeout, VersionWrapDump,
                 signerAddress, addr, conn, ctlr, rootErr, resp, respTag, tag,
                 errGit, stderr, exitStatus, nodeArg, buildStamp, lookup>>

PreRunConnect_ignoreError ==
  /\ pc = "connect"
  /\ \E ok \in BOOLEAN :
       /\ conn' = [created |-> TRUE, endpoint |-> node, started |-> ok]
       /\ rootErr' = NilErr
       /\ pc' = "signer"
  /\ events' = events \o <<"NewGrpcClient", "Start">>
  /\ UNCHANGED <<signer, node, dryRun, useLedgerWallet, timeout, VersionWrapDump,
                 signerAddress, addr, ctlr, resp, respTag, tag, errGit, stderr,
                 exitStatus, nodeArg, buildStamp, lookup>>

(* PersistentPreRunE, lines 52-55 *)
PreRunConnect ==
  /\ pc = "connect"
  /\ \E ok \in BOOLEAN :
       /\ conn' = [created |-> TRUE, endpoint |-> node, started |-> ok]
       /\ IF ok
          THEN rootErr' = NilErr /\ pc' = "signer"
          ELSE rootErr' = Err(<<"connection failed">>) /\ pc' = "rootReturned"
  /\ events' = events \o <<"NewGrpcClient", "Start">>
  /\ UNCHANGED <<signer, node, dryRun, useLedgerWallet, timeout, VersionWrapDump,
                 signerAddress, addr, ctlr, resp, respTag, tag, errGit, stderr,
                 exitStatus, nodeArg, buildStamp, lookup>>

(* PersistentPreRunE, lines 57-64 *)
PreRunSigner ==
  /\ pc = "signer"
  /\ IF Len(signer) > 0
     THEN LET r == findAddress(signer)
          IN /\ signerAddress' = r.address
             /\ lookup' = [made |-> TRUE, value |-> signer, address |-> r.address,
                           err |-> r.err, storeCalls |-> r.storeCalls]
             /\ events' = IF r.err.nil THEN events \o <<"findAddress", "preRunOK">>
                          ELSE Append(events, "findAddress")
             /\ rootErr' = r.err
             /\ pc' = IF r.err.nil THEN "subPreRun" ELSE "rootReturned"
     ELSE /\ pc' = "subPreRun"
          /\ events' = Append(events, "preRunOK")
          /\ UNCHANGED <<signerAddress, lookup, rootErr>>
  /\ UNCHANGED <<signer, node, dryRun, useLedgerWallet, timeout, VersionWrapDump,
                 addr, conn, ctlr, resp, respTag, tag, errGit, stderr,
                 exitStatus, nodeArg, buildStamp>>

(* validateAddress, lines 188-193, as the pre-run of a subcommand that takes *)
(* an address argument                                                       *)
validateAddress ==
  /\ pc = "subPreRun"
  /\ \E x \in Identifiers :
       LET r == findAddress(x)
       IN /\ addr' = r.address
          /\ lookup' = [made |-> TRUE, value |-> x, address |-> r.address,
                        err |-> r.err, storeCalls |-> r.storeCalls]
          /\ rootErr' = r.err
          /\ pc' = IF r.err.nil THEN "body" ELSE "rootReturned"
  /\ UNCHANGED <<signer, node, dryRun, useLedgerWallet, timeout, VersionWrapDump,
                 signerAddress, conn, ctlr, resp, respTag, tag, errGit, stderr,
                 events, exitStatus, nodeArg, buildStamp>>

(* a subcommand without an address argument: the body starts directly *)
EnterBody ==
  /\ pc = "subPreRun"
  /\ pc' = "body"
  /\ lookup' = NoLookup
  /\ UNCHANGED <<signer, node, dryRun, useLedgerWallet, timeout, VersionWrapDump,
                 signerAddress, addr, conn, ctlr, rootErr, resp, respTag, tag,
                 errGit, stderr, events, exitStatus, nodeArg, buildStamp>>

(* a subcommand body builds a transaction controller and passes opts to it *)
BodyOpts ==
  /\ pc = "body"
  /\ \E b \in Behaviors :
       ctlr' = [live |-> TRUE, given |-> b, Behavior |-> opts(b)]
  /\ events' = Append(events, "body")
  /\ pc' = "bodyOpts"
  /\ lookup' = NoLookup
  /\ UNCHANGED <<signer, node, dryRun, useLedgerWallet, timeout, VersionWrapDump,
                 signerAddress, addr, conn, rootErr, resp, respTag, tag,
                 errGit, stderr, exitStatus, nodeArg, buildStamp>>

(* the subcommand body returns, with or without an error *)
BodyReturn ==
  /\ pc \in {"body", "bodyOpts"}
  /\ \E ok \in BOOLEAN :
       rootErr' = IF ok THEN NilErr ELSE Err(<<"subcommand failed">>)
  /\ events' = IF pc = "body" THEN Append(events, "body") ELSE events
  /\ ctlr' = NoCtlr
  /\ lookup' = NoLookup
  /\ pc' = "rootReturned"
  /\ UNCHANGED <<signer, node, dryRun, useLedgerWallet, timeout, VersionWrapDump,
                 signerAddress, addr, conn, resp, respTag, tag,
                 errGit, stderr, exitStatus, nodeArg, buildStamp>>

ExecuteDispatch_always ==
  /\ pc = "rootReturned"
  /\ pc' = "getRelease"
  /\ events' = Append(events, "getGitVersion")
  /\ UNCHANGED exitStatus
  /\ UNCHANGED <<signer, node, dryRun, useLedgerWallet, timeout, VersionWrapDump,
                 signerAddress, addr, conn, ctlr, rootErr, resp, respTag, tag,
                 errGit, stderr, nodeArg, buildStamp, lookup>>

(* Execute, lines 177-178: the test of RootCmd.Execute()'s error *)
ExecuteDispatch ==
  /\ pc = "rootReturned"
  /\ IF ~rootErr.nil
     THEN /\ pc' = "getRelease"
          /\ events' = Append(events, "getGitVersion")
          /\ UNCHANGED exitStatus
     ELSE /\ pc' = "done"
          /\ exitStatus' = 0
          /\ UNCHANGED events
  /\ UNCHANGED <<signer, node, dryRun, useLedgerWallet, timeout, VersionWrapDump,
                 signerAddress, addr, conn, ctlr, rootErr, resp, respTag, tag,
                 errGit, stderr, nodeArg, buildStamp, lookup>>

(* getGitVersion, lines 139-148 and 171 *)
GetRelease ==
  /\ pc = "getRelease"
  /\ \E r \in Responses(Tags) :
       /\ resp' = r
       /\ IF r.nil
          THEN (* line 140: defer resp.Body.Close() dereferences a nil resp *)
               /\ pc' = "panicked"
               /\ exitStatus' = 2
               /\ stderr' = Append(stderr, PanicLine)
               /\ UNCHANGED <<tag, errGit>>
          ELSE IF r.StatusCode # StatusOK
          THEN /\ pc' = "gitReturned"
               /\ tag' = <<>>
               /\ errGit' = Err(CouldNotFetch)
               /\ UNCHANGED <<stderr, exitStatus>>
          ELSE IF ~r.json
          THEN /\ pc' = "gitReturned"
               /\ tag' = <<>>
               /\ errGit' = Err(JSONError)
               /\ UNCHANGED <<stderr, exitStatus>>
          ELSE /\ pc' = "getTag"
               /\ UNCHANGED <<tag, errGit, stderr, exitStatus>>
  /\ UNCHANGED <<signer, node, dryRun, useLedgerWallet, timeout, VersionWrapDump,
                 signerAddress, addr, conn, ctlr, rootErr, respTag, events,
                 nodeArg, buildStamp, lookup>>

(* getGitVersion, lines 150-171 *)
GetTag ==
  /\ pc = "getTag"
  /\ \E r \in Responses(Shas) :
       LET commit == Split(VersionWrapDump, "-")
       IN /\ respTag' = r
          /\ IF r.nil \/ r.StatusCode # StatusOK
             THEN /\ pc' = "gitReturned"
                  /\ tag' = <<>>
                  /\ errGit' = Err(CouldNotFetch)
                  /\ UNCHANGED <<stderr, exitStatus>>
             ELSE IF ~r.json
             THEN /\ pc' = "gitReturned"
                  /\ tag' = <<>>
                  /\ errGit' = Err(JSONError)
                  /\ UNCHANGED <<stderr, exitStatus>>
             ELSE IF Len(r.value) < ShaPrefixLen \/ Len(commit) < 2
             THEN (* line 163: SHA[:8] or commit[1] out of range *)
                  /\ pc' = "panicked"
                  /\ exitStatus' = 2
                  /\ stderr' = Append(stderr, PanicLine)
                  /\ UNCHANGED <<tag, errGit>>
             ELSE IF SubSeq(r.value, 1, ShaPrefixLen) # commit[2]
             THEN /\ pc' = "gitReturned"
                  /\ stderr' = Append(stderr, WarnPrefix \o resp.value)
                  /\ tag' = resp.value
                  /\ errGit' = Err(WarnPrefix \o resp.value)
                  /\ UNCHANGED exitStatus
             ELSE /\ pc' = "gitReturned"
                  /\ tag' = resp.value
                  /\ errGit' = NilErr
                  /\ UNCHANGED <<stderr, exitStatus>>
  /\ UNCHANGED <<signer, node, dryRun, useLedgerWallet, timeout, VersionWrapDump,
                 signerAddress, addr, conn, ctlr, rootErr, resp, events,
                 nodeArg, buildStamp, lookup>>

(* Execute, lines 178-182 *)
ExecuteReport ==
  /\ pc = "gitReturned"
  /\ LET stamp == IF errGit.nil THEN VersionWrapDump \o <<":">> \o tag
                  ELSE VersionWrapDump
     IN /\ VersionWrapDump' = stamp
        /\ stderr' = Append(stderr, ErrorLine(stamp, rootErr))
  /\ events' = Append(events, "errorLine")
  /\ pc' = "hint"
  /\ UNCHANGED <<signer, node, dryRun, useLedgerWallet, timeout,
                 signerAddress, addr, conn, ctlr, rootErr, resp, respTag, tag,
                 errGit, exitStatus, nodeArg, buildStamp, lookup>>

(* Execute, line 183 *)
ExecuteHint ==
  /\ pc = "hint"
  /\ stderr' = Append(stderr, HelpHint)
  /\ events' = Append(events, "helpHint")
  /\ pc' = "exit"
  /\ UNCHANGED <<signer, node, dryRun, useLedgerWallet, timeout, VersionWrapDump,
                 signerAddress, addr, conn, ctlr, rootErr, resp, respTag, tag,
                 errGit, exitStatus, nodeArg, buildStamp, lookup>>

(* Execute, line 184 *)
ExecuteExit ==
  /\ pc = "exit"
  /\ exitStatus' = 1
  /\ events' = Append(events, "exit1")
  /\ pc' = "exited"
  /\ UNCHANGED <<signer, node, dryRun, useLedgerWallet, timeout, VersionWrapDump,
                 signerAddress, addr, conn, ctlr, rootErr, resp, respTag, tag,
                 errGit, stderr, nodeArg, buildStamp, lookup>>

Next ==
  \/ ParseFlags
  \/ PreRunNormalize
  \/ PreRunConnect
  \/ PreRunSigner
  \/ validateAddress
  \/ EnterBody
  \/ BodyOpts
  \/ BodyReturn
  \/ ExecuteDispatch
  \/ GetRelease
  \/ GetTag
  \/ ExecuteReport
  \/ ExecuteHint
  \/ ExecuteExit

Spec == Init /\ [][Next]_vars

-----------------------------------------------------------------------------
(* Properties *)

Ended == pc \in {"done", "exited", "panicked"}
Failing == ~rootErr.nil
InStderr(line) == \E i \in 1..Len(stderr) : stderr[i] = line
Index(e) == IF \E i \in 1..Len(events) : events[i] = e
            THEN CHOOSE i \in 1..Len(events) : events[i] = e
            ELSE 0
Happened(e) == Index(e) > 0
Before(a, b) == Happened(a) /\ Index(a) < Index(b)
IsPrefix(p, s) == Len(p) <= Len(s) /\ SubSeq(s, 1, Len(p)) = p
IsSuffix(p, s) == Len(p) <= Len(s) /\ SubSeq(s, Len(s) - Len(p) + 1, Len(s)) = p
FirstChars(s, n) == SubSeq(s, 1, IF Len(s) < n THEN Len(s) ELSE n)
StampSegments == Split(buildStamp, "-")
BothAnswered ==
  /\ resp.made /\ ~resp.nil /\ resp.StatusCode = StatusOK /\ resp.json
  /\ respTag.made /\ ~respTag.nil /\ respTag.StatusCode = StatusOK /\ respTag.json
AfterReport == pc \in {"hint", "exit", "exited"}
AllFlagsDefault == ~dryRun /\ ~useLedgerWallet /\ timeout = defaultTimeout

(* C1: every failing run of the root command ends with the error line and   *)
(* the help hint written to standard error and exit status 1, whatever the  *)
(* two HTTP requests returned and whatever the build stamp is; the version  *)
(* check never aborts the process.                                          *)
C1_VersionCheckNeverFatal ==
  /\ pc # "panicked"
  /\ (Failing /\ Ended) =>
        /\ exitStatus = 1
        /\ InStderr(ErrorLine(VersionWrapDump, rootErr))
        /\ InStderr(HelpHint)

(* C2: when the release request ends in a transport error or a status other *)
(* than 200, getGitVersion returns the empty tag and the "could not fetch   *)
(* version" error, makes no tag request, and the build stamp and the error  *)
(* line carry only the original stamp and error.                            *)
C2_ReleaseFailureIsCouldNotFetch ==
  (resp.made /\ (resp.nil \/ resp.StatusCode # StatusOK)) =>
     /\ pc \in {"gitReturned", "hint", "exit", "exited"}
     /\ tag = <<>>
     /\ errGit = Err(CouldNotFetch)
     /\ ~respTag.made
     /\ VersionWrapDump = buildStamp
     /\ AfterReport => stderr[1] = ErrorLine(buildStamp, rootErr)

(* C3 (as claimed): with all flags at their registered defaults opts leaves *)
(* DryRun, SigningImpl and ConfirmationWaitTime of the controller unchanged.*)
C3_DefaultsLeaveControllerUnchanged ==
  (ctlr.live /\ AllFlagsDefault) => ctlr.Behavior = ctlr.given

(* C3 (amended): opts leaves DryRun unchanged when dry-run is false,        *)
(* SigningImpl unchanged when ledger is false, and ConfirmationWaitTime     *)
(* unchanged only when timeout is 0; every timeout above 0, the registered  *)
(* default 20 included, is written to ConfirmationWaitTime.  With all flags *)
(* at their defaults DryRun and SigningImpl are unchanged and               *)
(* ConfirmationWaitTime is 20.                                              *)
C3_OptsAppliesSetOptions ==
  ctlr.live =>
     /\ ~dryRun => ctlr.Behavior.DryRun = ctlr.given.DryRun
     /\ ~useLedgerWallet => ctlr.Behavior.SigningImpl = ctlr.given.SigningImpl
     /\ useLedgerWallet => ctlr.Behavior.SigningImpl = "Ledger"
     /\ timeout = 0 =>
          ctlr.Behavior.ConfirmationWaitTime = ctlr.given.ConfirmationWaitTime
     /\ timeout > 0 => ctlr.Behavior.ConfirmationWaitTime = timeout
     /\ AllFlagsDefault =>
          /\ ctlr.Behavior.DryRun = ctlr.given.DryRun
          /\ ctlr.Behavior.SigningImpl = ctlr.given.SigningImpl
          /\ ctlr.Behavior.ConfirmationWaitTime = defaultTimeout

C3_Witness ==
  /\ ctlr.live /\ AllFlagsDefault
  /\ ctlr.given = [DryRun |-> TRUE, SigningImpl |-> "Ledger", ConfirmationWaitTime |-> 1]
  /\ ctlr.Behavior = [DryRun |-> TRUE, SigningImpl |-> "Ledger",
                      ConfirmationWaitTime |-> defaultTimeout]

(* C4: with both endpoints answering 200 and a stamp of the form            *)
(* <version>-<commit-prefix>: if the first 8 characters of the fetched SHA  *)
(* equal the stamp's second segment the tag is returned with no error and   *)
(* no warning is written; otherwise the tag is returned with an error and a *)
(* warning naming the tag is written to standard error.                     *)
C4_PrefixComparisonDecidesWarning ==
  (BothAnswered /\ Len(StampSegments) = 2) =>
     /\ pc # "panicked"
     /\ tag = resp.value
     /\ IF FirstChars(respTag.value, ShaPrefixLen) = StampSegments[2]
        THEN errGit.nil /\ ~InStderr(WarnPrefix \o resp.value)
        ELSE ~errGit.nil /\ InStderr(WarnPrefix \o resp.value)

(* C5: findAddress(x) succeeds iff x parses as a literal address or x is    *)
(* resolved by the account-name store; a literal address is returned        *)
(* without consulting the store; when both fail the error message carries x.*)
C5_FindAddressResolution ==
  lookup.made =>
     LET x == lookup.value
         literal == x \in LiteralAddresses
         named == x \in DOMAIN AccountStore
     IN /\ lookup.err.nil <=> (literal \/ named)
        /\ literal => lookup.address = x /\ lookup.storeCalls = 0
        /\ (~literal /\ named) => lookup.address = AccountStore[x]
        /\ (~literal /\ ~named) => IsSuffix(x, lookup.err.msg)

C5_Witness ==
  /\ lookup.made /\ lookup.value = T1 /\ T1 \in DOMAIN AccountStore
  /\ lookup.address = T1 /\ addr = T1 /\ lookup.storeCalls = 0

(* C6: after the pre-run hook's normalisation the endpoint is <input>:50051 *)
(* for an input without ':' and the input itself otherwise, the connection  *)
(* is opened to that endpoint, and normalising it again changes nothing.    *)
C6_EndpointNormalization ==
  pc \notin {"main", "preRun"} =>
     /\ ~HasChar(nodeArg, ":") => node = nodeArg \o <<":", "5", "0", "0", "5", "1">>
     /\ HasChar(nodeArg, ":") => node = nodeArg
     /\ conn.created => conn.endpoint = node
     /\ NormalizeNode(node) = node

C6_Witness ==
  /\ conn.created /\ nodeArg = <<"h", "h">>
  /\ conn.endpoint = <<"h", "h", ":", "5", "0", "0", "5", "1">>

(* C7: opts never downgrades a controller setting: dry-run=true gives       *)
(* DryRun true; dry-run=false keeps a DryRun that was true; ledger=false    *)
(* keeps SigningImpl; timeout=0 keeps ConfirmationWaitTime.                 *)
C7_OptsNeverDowngrades ==
  ctlr.live =>
     /\ dryRun => ctlr.Behavior.DryRun
     /\ ctlr.given.DryRun => ctlr.Behavior.DryRun
     /\ ~useLedgerWallet => ctlr.Behavior.SigningImpl = ctlr.given.SigningImpl
     /\ timeout = 0 =>
          ctlr.Behavior.ConfirmationWaitTime = ctlr.given.ConfirmationWaitTime

C7_Witness ==
  /\ ctlr.live /\ ~dryRun /\ ~useLedgerWallet /\ timeout = 0
  /\ ctlr.given = [DryRun |-> TRUE, SigningImpl |-> "Ledger", ConfirmationWaitTime |-> 1]
  /\ ctlr.Behavior = ctlr.given

ExecuteOrder == <<"getGitVersion", "errorLine", "helpHint", "exit1">>
IsExecuteEvent(e) == e \in {"getGitVersion", "errorLine", "helpHint", "exit1"}
ExecuteEvents == SelectSeq(events, IsExecuteEvent)

(* C8: the version check runs only after the root command returned a        *)
(* failure; a failing run performs version check, error line, help hint and *)
(* exit with status 1 in that order; a successful run performs none of them *)
(* and does not end with status 1.                                          *)
C8_ExecuteEventOrder ==
  /\ IsPrefix(ExecuteEvents, ExecuteOrder)
  /\ ExecuteEvents # <<>> => Failing
  /\ (Failing /\ Ended) => (ExecuteEvents = ExecuteOrder /\ exitStatus = 1)
  /\ (~Failing /\ Ended) => (ExecuteEvents = <<>> /\ exitStatus = 0 /\ stderr = <<>>)

(* C9: the endpoint is normalised before the connection is created, the     *)
(* connection is started before the signer is resolved, and a subcommand    *)
(* body runs only after the hook succeeded; a failed start leaves           *)
(* signerAddress alone and runs no body; an unresolvable non-empty signer   *)
(* runs no body; an empty signer leaves signerAddress alone and the hook    *)
(* succeeds once the connection started.                                    *)
C9_PreRunOrderAndShortCircuit ==
  /\ conn.created => (Before("normalize", "NewGrpcClient") /\ conn.endpoint = node)
  /\ Happened("findAddress") => (Before("Start", "findAddress") /\ conn.started)
  /\ Happened("body") => (Before("preRunOK", "body") /\ conn.started)
  /\ Happened("preRunOK") => (conn.started /\ Before("Start", "preRunOK"))
  /\ (conn.created /\ ~conn.started) =>
        /\ signerAddress = ZeroAddress
        /\ ~Happened("findAddress") /\ ~Happened("preRunOK") /\ ~Happened("body")
        /\ Failing
  /\ (Len(signer) > 0 /\ signer \notin LiteralAddresses
        /\ signer \notin DOMAIN AccountStore) => ~Happened("body")
  /\ signer = <<>> =>
        /\ signerAddress = ZeroAddress
        /\ ~Happened("findAddress")
        /\ (conn.started /\ pc # "signer") => Happened("preRunOK")

C9_Witness ==
  /\ conn.created /\ ~conn.started /\ Len(signer) > 0
  /\ pc = "exited" /\ signerAddress = ZeroAddress /\ ~Happened("body")

(* C10: for a stamp <version>-<commit-prefix> whose prefix has 7 or 8       *)
(* characters and is a prefix of the fetched SHA (the running build is the  *)
(* latest tagged commit, so the SHA is a full one of at least 8 characters),*)
(* no outdated-version warning is reported and the error line carries       *)
(* <stamp>:<tag>.                                                           *)
C10_LatestBuildGetsTagNoWarning ==
  (BothAnswered /\ Len(StampSegments) = 2
     /\ Len(StampSegments[2]) \in {7, 8}
     /\ Len(respTag.value) >= ShaPrefixLen
     /\ IsPrefix(StampSegments[2], respTag.value)) =>
     /\ pc # "panicked"
     /\ errGit.nil
     /\ ~InStderr(WarnPrefix \o resp.value)
     /\ AfterReport =>
          InStderr(ErrorLine(buildStamp \o <<":">> \o resp.value, rootErr))

====
